---------------------------- MODULE Spec2Model ----------------------------
(***************************************************************************)
(* Berlin housing monitor (src/berlin_housing_monitor.py).                 *)
(*                                                                         *)
(* The model follows one process that runs main() again and again (cron):  *)
(* load the seen-set, call the three extractors, walk the concatenated     *)
(* list (fingerprint, skip if seen, evaluate, notify, mark), save, report. *)
(* The network, the state file's readability and writability and the       *)
(* notification sink are the environment: every outcome they can produce   *)
(* is a nondeterministic choice.                                           *)
(*                                                                         *)
(* Numbers are scaled integers: rooms and sizes in tenths, rents in cents, *)
(* so that 50.1 m2 is 501 and 700.01 EUR is 70001.                         *)
(***************************************************************************)
EXTENDS Integers, Sequences, FiniteSets, TLC

VARIABLES
    pc,                   \* position of the process inside main()
    run,                  \* number of the current invocation of main()
    file,                 \* seen_apartments.json on disk
    seen_apartments,      \* main: the in-memory seen-set
    all_apartments,       \* main: the concatenated extractor output
    idx,                  \* main: position of the for loop, line 658
    new_apartments_found, \* main: the new-match counter
    evals,                \* history: fingerprints handed to matches_criteria in this run
    adds,                 \* history: fingerprints handed to seen_apartments.add in this run
    sends,                \* history: fingerprints handed to send_telegram_message in this run
    lookups,              \* history: records whose fingerprint main looked up in this run
    loadedSeen,           \* history: the set load_seen_apartments returned in this run
    loadOk,               \* history: load_seen_apartments read the file's content in this run
    fileAtStart,          \* history: the file as it was when this run started
    saveCalled,           \* history: the argument of save_seen_apartments in this run
    prevListings,         \* history: the listings in the previous run's extractor output
    prevSaved,            \* history: the previous run's save wrote the whole document
    saved,                \* history: this run's save wrote the whole document
    srcFailed,            \* history: sources whose every request failed in this run
    failedYield,          \* history: records returned in this run by sources that failed
    sendFailed,           \* history: a notification of this run was not delivered
    apartment,            \* matches_criteria: its argument
    result,               \* matches_criteria: its return value
    document,             \* an extractor on its own: the responses it is served
    extracted,            \* an extractor on its own: the list it returns
    node_text,            \* field extraction on its own: the text of a listing node
    fields,               \* field extraction on its own: the numbers extracted
    records,              \* generate_apartment_id on its own: two apartment dicts
    ids                   \* generate_apartment_id on its own: their fingerprints

vars == <<pc, run, file, seen_apartments, all_apartments, idx, new_apartments_found,
          evals, adds, sends, lookups, loadedSeen, loadOk, fileAtStart, saveCalled,
          prevListings, prevSaved, saved, srcFailed, failedYield, sendFailed,
          apartment, result, document, extracted, node_text, fields, records, ids>>

mainVars == <<pc, run, file, seen_apartments, all_apartments, idx, new_apartments_found,
              evals, adds, sends, lookups, loadedSeen, loadOk, fileAtStart, saveCalled,
              prevListings, prevSaved, saved, srcFailed, failedYield, sendFailed>>

\* main's state but for its position
mainRest == <<run, file, seen_apartments, all_apartments, idx, new_apartments_found,
              evals, adds, sends, lookups, loadedSeen, loadOk, fileAtStart, saveCalled,
              prevListings, prevSaved, saved, srcFailed, failedYield, sendFailed>>

evalVars == <<apartment, result>>
extractVars == <<document, extracted>>
parseVars == <<node_text, fields>>
idVars == <<records, ids>>

\* the variables of the functions checked on their own
pureVars == <<evalVars, extractVars, parseVars, idVars>>

(***************************************************************************)
(* Python values of the optional numeric fields of an apartment dict.      *)
(***************************************************************************)
None == [tag |-> "None", val |-> 0]          \* the key is there, its value is None
Missing == [tag |-> "missing", val |-> 0]    \* the key is not in the dict
Text == [tag |-> "str", val |-> 0]           \* a string float() cannot parse
Float(n) == [tag |-> "float", val |-> n]
IntNum(n) == [tag |-> "int", val |-> n]

IsNum(v) == v.tag \in {"float", "int"}

\* dict.get(key, default)
Get(v, default) == IF v.tag = "missing" THEN default ELSE v

\* float(x): TypeError on None, ValueError on a non-numeric string
FloatRaises(v) == ~IsNum(v)

\* bool(x) as `or` and `if` see it: None, 0 and 0.0 are false
Truthy(v) == (IsNum(v) /\ v.val # 0) \/ v.tag = "str"

\* str(x) inside an f-string; values are tenths
PyStr(v) ==
    CASE v.tag = "None" -> "None"
      [] v.tag = "missing" -> ""
      [] v.tag = "str" -> "n/a"
      [] v.tag = "int" -> ToString(v.val \div 10)
      [] OTHER -> ToString(v.val \div 10) \o "." \o ToString(v.val % 10)

(***************************************************************************)
(* CRITERIA, lines 22-36, in tenths (rooms, size) and cents (price).       *)
(***************************************************************************)
rooms_min == 1 * 10
rooms_max == 2 * 10
size_max == 50 * 10
price_max == 700 * 100

(***************************************************************************)
(* generate_apartment_id, lines 125-128.  The MD5 digest is represented by *)
(* the key string it digests (MD5 is taken to be collision free).          *)
(***************************************************************************)
generate_apartment_id_WithRent(company, apartment_data) ==
    company \o "_" \o apartment_data.address
            \o "_" \o PyStr(Get(apartment_data.rooms, Missing))
            \o "_" \o PyStr(Get(apartment_data.size, Missing))
            \o "_" \o PyStr(Get(apartment_data.warm_rent, Missing))

generate_apartment_id(company, apartment_data) ==
    company \o "_" \o apartment_data.address
            \o "_" \o PyStr(Get(apartment_data.rooms, Missing))
            \o "_" \o PyStr(Get(apartment_data.size, Missing))

(***************************************************************************)
(* matches_criteria, lines 130-165.  criteria_body is the try block: it    *)
(* returns [raised |-> TRUE] where the code raises.  matches_criteria adds *)
(* the except clause of lines 163-165.                                     *)
(***************************************************************************)
Verdict(m, why) == [matches |-> m, reason |-> why, raised |-> FALSE]
Raised == [matches |-> FALSE, reason |-> "raised", raised |-> TRUE]

criteria_body(ap) ==
    LET rooms == Get(ap.rooms, IntNum(0))
        size == Get(ap.size, IntNum(0))
        warm_rent == Get(ap.warm_rent, None)
    IN  IF FloatRaises(rooms) \/ FloatRaises(size) THEN Raised
        ELSE IF ap.requires_wbs
        THEN IF size.val > size_max THEN Verdict(FALSE, "size over limit")
             ELSE IF rooms.val < rooms_min \/ rooms.val > rooms_max
                  THEN Verdict(FALSE, "room count out of range")
                  ELSE Verdict(TRUE, "ok with WBS")
        ELSE IF warm_rent.tag = "None" THEN Verdict(FALSE, "no price available")
        ELSE IF FloatRaises(warm_rent) THEN Raised
        ELSE IF warm_rent.val <= price_max THEN Verdict(TRUE, "ok without WBS")
        ELSE Verdict(FALSE, "price over ceiling")

matches_criteria(ap) ==
    LET r == criteria_body(ap)
    IN  IF r.raised THEN Verdict(FALSE, "error") ELSE r

(***************************************************************************)
(* Text.  A str is a sequence of characters, a character a one-letter      *)
(* string; the two non-ASCII characters the patterns name are spelled out. *)
(***************************************************************************)
EuroSign == "EURO SIGN"
Sup2 == "SUPERSCRIPT TWO"

DigitChars == {"0", "1", "2", "3", "4", "5", "6", "7", "8", "9"}

DigitVal(c) ==
    CASE c = "0" -> 0 [] c = "1" -> 1 [] c = "2" -> 2 [] c = "3" -> 3 [] c = "4" -> 4
      [] c = "5" -> 5 [] c = "6" -> 6 [] c = "7" -> 7 [] c = "8" -> 8 [] OTHER -> 9

RECURSIVE RunLength(_, _, _)
\* how many characters of class S stand at position p and after it
RunLength(t, p, S) ==
    IF p \in 1..Len(t) /\ t[p] \in S THEN 1 + RunLength(t, p + 1, S) ELSE 0

\* the literal w stands at position p
StartsWith(t, p, w) ==
    p >= 1 /\ p + Len(w) - 1 <= Len(t) /\ SubSeq(t, p, p + Len(w) - 1) = w

\* str.count(ch)
CountChar(t, ch) == Cardinality({i \in 1..Len(t) : t[i] = ch})

\* str.replace(old, new) for single characters
Replace(t, old, new) == [i \in 1..Len(t) |-> IF t[i] = old THEN new ELSE t[i]]

RECURSIVE ReplaceWithEmpty(_, _, _)
\* str.replace(old, '', count): the first count occurrences go, none when
\* count is 0, all of them when count is negative
ReplaceWithEmpty(t, old, count) ==
    IF t = <<>> \/ count = 0 THEN t
    ELSE IF Head(t) = old THEN ReplaceWithEmpty(Tail(t), old, count - 1)
    ELSE <<Head(t)>> \o ReplaceWithEmpty(Tail(t), old, count)

RECURSIVE DigitsValue(_)
DigitsValue(t) ==
    IF t = <<>> THEN 0
    ELSE DigitsValue(SubSeq(t, 1, Len(t) - 1)) * 10 + DigitVal(t[Len(t)])

RECURSIVE Pow10(_)
Pow10(n) == IF n = 0 THEN 1 ELSE 10 * Pow10(n - 1)

ValueError == [tag |-> "ValueError", val |-> 0]

\* float(t) for a str of digits and dots, as a number of 10^-decimals;
\* ValueError when t holds two dots or no digit.  Exact for the strings of
\* at most `decimals` fractional digits, which are the ones the model draws.
PyFloat(t, decimals) ==
    LET dots == {i \in 1..Len(t) : t[i] = "."}
        dot == IF dots = {} THEN Len(t) + 1 ELSE CHOOSE i \in dots : TRUE
        int == SubSeq(t, 1, dot - 1)
        frac == SubSeq(t, dot + 1, Len(t))
        kept == SubSeq(frac, 1, IF Len(frac) < decimals THEN Len(frac) ELSE decimals)
    IN  IF Cardinality(dots) > 1 \/ Len(t) = Cardinality(dots) THEN ValueError
        ELSE Float(DigitsValue(int) * Pow10(decimals)
                     + DigitsValue(kept) * Pow10(decimals - Len(kept)))

(***************************************************************************)
(* The patterns of the markup extractors and re.search: the leftmost       *)
(* position where the pattern matches and, there, the match the            *)
(* backtracking order reaches first (every quantifier is greedy).  A match *)
(* is given by the lengths of its parts; the result is group(1), or <<>>   *)
(* where re.search returns None.                                           *)
(***************************************************************************)
Spaces == {" "}

\* \s*(?:w1|w2|...) at position p
MarkerAfterSpaces(t, p, markers) ==
    \E w \in markers : StartsWith(t, p + RunLength(t, p, Spaces), w)

SeparatorAt(t, p) == StartsWith(t, p, <<",">>) \/ StartsWith(t, p, <<".">>)

\* (\d{1,4}[,\.]?\d{0,2})\s*(?:markers) at position s: <<digits, separator,
\* digits>>
PriceMatchesAt(t, s, markers) ==
    {m \in (1..4) \X {0, 1} \X (0..2) :
        /\ RunLength(t, s, DigitChars) >= m[1]
        /\ m[2] = 1 => SeparatorAt(t, s + m[1])
        /\ RunLength(t, s + m[1] + m[2], DigitChars) >= m[3]
        /\ MarkerAfterSpaces(t, s + m[1] + m[2] + m[3], markers)}

\* lines 242 and 532
price_match(t, markers) ==
    LET starts == {s \in 1..Len(t) : PriceMatchesAt(t, s, markers) # {}}
    IN  IF starts = {} THEN <<>>
        ELSE LET s == CHOOSE x \in starts : \A y \in starts : x <= y
                 M == PriceMatchesAt(t, s, markers)
                 m == CHOOSE x \in M : \A y \in M :
                          y[1] * 100 + y[2] * 10 + y[3] <= x[1] * 100 + x[2] * 10 + x[3]
             IN  SubSeq(t, s, s + m[1] + m[2] + m[3] - 1)

\* (\d+(?:[,\.]\d+)?)\s*(?:markers), or (\d+[,\.]\d+)\s*(?:markers) when the
\* fraction is not optional, at position s: <<digits, digits of the fraction>>
NumberMatchesAt(t, s, markers, optional) ==
    {m \in (1..Len(t)) \X (0..Len(t)) :
        /\ RunLength(t, s, DigitChars) >= m[1]
        /\ m[2] = 0 => optional
        /\ m[2] > 0 => /\ SeparatorAt(t, s + m[1])
                       /\ RunLength(t, s + m[1] + 1, DigitChars) >= m[2]
        /\ MarkerAfterSpaces(t, s + m[1] + (IF m[2] > 0 THEN 1 + m[2] ELSE 0), markers)}

number_match(t, markers, optional) ==
    LET starts == {s \in 1..Len(t) : NumberMatchesAt(t, s, markers, optional) # {}}
    IN  IF starts = {} THEN <<>>
        ELSE LET s == CHOOSE x \in starts : \A y \in starts : x <= y
                 M == NumberMatchesAt(t, s, markers, optional)
                 m == CHOOSE x \in M : \A y \in M :
                          y[1] * (Len(t) + 1) + y[2] <= x[1] * (Len(t) + 1) + x[2]
             IN  SubSeq(t, s, s + m[1] + (IF m[2] > 0 THEN m[2] ELSE -1))

RoomMarkers == {<<"Z", "i", "m", "m", "e", "r">>, <<"Z", "i", ".">>}
SizeMarkers == {<<"m", Sup2>>, <<"m", "2">>}
PortalCurrency == {<<EuroSign>>, <<"E", "U", "R">>, <<"E", "u", "r", "o">>}
HowogeCurrency == {<<EuroSign>>, <<"E", "U", "R">>}

\* lines 229 and 520
rooms_match(t) == number_match(t, RoomMarkers, TRUE)

\* lines 235 and 526
size_match(t) == number_match(t, SizeMarkers, TRUE)

\* lines 356 and 368
warm_match(price_text) == number_match(price_text, {<<EuroSign>>}, FALSE)

\* lines 231, 237, 522, 528: float(group.replace(',', '.')), in hundredths
NumberValue(group) ==
    IF group = <<>> THEN None ELSE PyFloat(Replace(group, ",", "."), 2)

\* lines 244, 358, 370, 534:
\* float(group.replace(',', '.').replace('.', '', text.count('.') - 1)), in cents
PriceValue(group, t) ==
    IF group = <<>> THEN None
    ELSE PyFloat(ReplaceWithEmpty(Replace(group, ",", "."), ".", CountChar(t, ".") - 1), 2)

Extracted(site, rooms, size, warm_rent) ==
    [site |-> site, rooms |-> rooms, size |-> size, warm_rent |-> warm_rent,
     raised |-> ValueError \in {rooms, size, warm_rent}]

\* lines 227-244 of check_inberlinwohnen, 518-534 of check_howoge, 368-370 of
\* fetch_degewo_apartment_details
ExtractFields(site, t) ==
    CASE site = "inberlinwohnen" ->
             Extracted(site, NumberValue(rooms_match(t)), NumberValue(size_match(t)),
                       PriceValue(price_match(t, PortalCurrency), t))
      [] site = "howoge" ->
             Extracted(site, NumberValue(rooms_match(t)), NumberValue(size_match(t)),
                       PriceValue(price_match(t, HowogeCurrency), t))
      [] OTHER -> Extracted(site, None, None, PriceValue(warm_match(t), t))

(***************************************************************************)
(* Bounds of the model.                                                    *)
(***************************************************************************)
MaxRuns == 2        \* invocations of main()
MaxListings == 2    \* listing items in one response, records in one run

(***************************************************************************)
(* The apartment dict every extractor builds (lines 249-259, 400-410,      *)
(* 446-456, 539-549).                                                      *)
(***************************************************************************)
Apartment(company, address, rooms, size, warm_rent, cold_rent, requires_wbs, url, avail) ==
    [company |-> company, address |-> address, rooms |-> rooms, size |-> size,
     warm_rent |-> warm_rent, cold_rent |-> cold_rent, requires_wbs |-> requires_wbs,
     url |-> url, available_from |-> avail]

(***************************************************************************)
(* What the environment serves.  A listing item of a response is described *)
(* by what the extractor's lookups and patterns find in it:                *)
(*   kind "ok"     the item parses;                                        *)
(*   kind "bad"    parsing the item raises;                                *)
(*   kind "nolink" the item has no usable detail link (portal: no href;    *)
(*                 HOWOGE: the href carries no apartment id).              *)
(* A response is the item list of a 200 answer, a non-200 answer or a      *)
(* transport error (timeout, connection failure).                          *)
(***************************************************************************)
Item(kind, company, address, rooms, size, warm_rent, requires_wbs) ==
    [kind |-> kind, company |-> company, address |-> address, rooms |-> rooms,
     size |-> size, warm_rent |-> warm_rent, requires_wbs |-> requires_wbs]

Qualifying(company, address) ==
    Item("ok", company, address, Float(20), Float(500), None, TRUE)
Absent(company, address) ==
    Item("ok", company, address, None, None, None, FALSE)
Bad == Item("bad", "", "", None, None, None, FALSE)
NoLink(company, address) ==
    Item("nolink", company, address, Float(20), Float(500), None, TRUE)

PortalItems ==
    {Qualifying("HOWOGE", "Astr. 1"), Absent("HOWOGE", "Astr. 1"), Bad}
DegewoItems ==
    {Absent("degewo", "Astr. 1"), Bad}
HowogeItems ==
    {Qualifying("HOWOGE", "Astr. 1"), Qualifying("HOWOGE", "Bweg 2"),
     Absent("HOWOGE", "Astr. 1"), NoLink("HOWOGE", "Bweg 2")}

SeqsUpTo(S, n) == UNION {[1..k -> S] : k \in 0..n}

Responses(items) ==
    {[status |-> "200", items |-> l] : l \in SeqsUpTo(items, MaxListings)}
      \cup {[status |-> "non-200", items |-> <<>>],
            [status |-> "transport error", items |-> <<>>]}

(***************************************************************************)
(* Extractor results: the list returned and whether an exception left the  *)
(* function.                                                               *)
(***************************************************************************)
Returned(apartments) == [apartments |-> apartments, raised |-> FALSE]
Propagated(apartments) == [apartments |-> apartments, raised |-> TRUE]

(***************************************************************************)
(* check_inberlinwohnen, lines 167-274.                                    *)
(***************************************************************************)
PortalUrl(it) == IF it.kind = "nolink" THEN "" ELSE "https://www.inberlinwohnen.de/x"

PortalKeep(it) ==
    PortalUrl(it) # "" /\ (Truthy(it.rooms) \/ Truthy(it.size) \/ Truthy(it.warm_rent))

PortalBuild(it) ==
    Apartment(it.company, it.address, it.rooms, it.size, it.warm_rent, None,
              it.requires_wbs, PortalUrl(it), "ab sofort")

\* lines 192-267: the loop with its try/except; an item that raises or is
\* filtered contributes nothing
PortalListings(items) ==
    LET kept == SelectSeq(items, LAMBDA it : it.kind # "bad" /\ PortalKeep(it))
    IN  [i \in 1..Len(kept) |-> PortalBuild(kept[i])]

check_inberlinwohnen_body(response) ==
    IF response.status = "transport error" THEN Propagated(<<>>)
    ELSE IF response.status # "200" THEN Returned(<<>>)
    ELSE Returned(PortalListings(response.items))

check_inberlinwohnen(response) ==
    Returned(check_inberlinwohnen_body(response).apartments)

(***************************************************************************)
(* check_howoge, lines 476-567.                                            *)
(***************************************************************************)
HowogeKeep(it) == it.kind # "nolink"

HowogeBuild(it) ==
    Apartment("HOWOGE", it.address, it.rooms, it.size, it.warm_rent, None,
              it.requires_wbs, "https://www.howoge.de/x", "ab sofort")

\* lines 497-555: the loop with its try/except
HowogeListings(items) ==
    LET kept == SelectSeq(items, LAMBDA it : it.kind # "bad" /\ HowogeKeep(it))
    IN  [i \in 1..Len(kept) |-> HowogeBuild(kept[i])]

check_howoge_body(response) ==
    IF response.status = "transport error" THEN Propagated(<<>>)
    ELSE IF response.status # "200" THEN Returned(<<>>)
    ELSE Returned(HowogeListings(response.items))

check_howoge_NoExcept(response) == check_howoge_body(response)

check_howoge(response) ==
    Returned(check_howoge_body(response).apartments)

(***************************************************************************)
(* check_degewo, lines 379-474.                                            *)
(***************************************************************************)
DegewoBuild(it) ==
    Apartment("degewo", it.address, it.rooms, it.size, it.warm_rent, None,
              it.requires_wbs, "https://immosuche.degewo.de/x", "ab sofort")

RECURSIVE DegewoApiLoop(_)
\* lines 399-411: no try inside the loop, so the first item that raises ends
\* the loop with what was appended so far
DegewoApiLoop(items) ==
    IF items = <<>> THEN Returned(<<>>)
    ELSE IF Head(items).kind = "bad" THEN Propagated(<<>>)
    ELSE LET rest == DegewoApiLoop(Tail(items))
         IN  [apartments |-> <<DegewoBuild(Head(items))>> \o rest.apartments,
              raised |-> rest.raised]

\* lines 459-460
DegewoHtmlKeep(it) == Truthy(it.rooms) \/ Truthy(it.size) \/ Truthy(it.warm_rent)

\* lines 431-467: the loop with its try/except
DegewoHtmlListings(items) ==
    LET kept == SelectSeq(items, LAMBDA it : it.kind # "bad" /\ DegewoHtmlKeep(it))
    IN  [i \in 1..Len(kept) |-> DegewoBuild(kept[i])]

\* lines 418-469, started with the list the API attempt left behind
DegewoHtml(apartments, html) ==
    IF html.status = "transport error" THEN Propagated(apartments)
    ELSE IF html.status # "200" THEN Returned(apartments)
    ELSE Returned(apartments \o DegewoHtmlListings(html.items))

\* for the API request "non-200" also stands for a 200 answer with an empty
\* body (line 396), "transport error" also for a body that is no JSON (line 397)
check_degewo_body(api, html) ==
    IF api.status = "transport error" THEN DegewoHtml(<<>>, html)
    ELSE IF api.status = "200"
    THEN LET r == DegewoApiLoop(api.items)
         IN  IF r.raised THEN DegewoHtml(r.apartments, html) ELSE r
    ELSE DegewoHtml(<<>>, html)

check_degewo(api, html) ==
    Returned(check_degewo_body(api, html).apartments)

(***************************************************************************)
(* send_telegram_message, lines 68-104.  The outcome of the attempt is the *)
(* environment's: credentials not configured, HTTP 200, another status, or *)
(* an exception of requests.post.                                          *)
(***************************************************************************)
TelegramOutcomes == {"no credentials", "200", "non-200", "exception"}

Sent(ok) == [ok |-> ok, raised |-> FALSE]

send_telegram_message_body(outcome) ==
    IF outcome = "exception" THEN [ok |-> FALSE, raised |-> TRUE]
    ELSE Sent(outcome = "200")

send_telegram_message_NoExcept(outcome) == send_telegram_message_body(outcome)

send_telegram_message(outcome) ==
    Sent(send_telegram_message_body(outcome).ok)

(***************************************************************************)
(* The state file.  kind "ok": a complete document holding `apartments`;   *)
(* "missing": no file; "truncated": the file exists but holds no complete  *)
(* document (empty or cut short).                                          *)
(***************************************************************************)
FileOk(S) == [kind |-> "ok", apartments |-> S]
FileMissing == [kind |-> "missing", apartments |-> {}]
FileTruncated == [kind |-> "truncated", apartments |-> {}]

\* the fingerprints a reader can get out of the file
Stored(f) == IF f.kind = "ok" THEN f.apartments ELSE {}

load_seen_apartments_Empty(f, readable) == {}

\* load_seen_apartments, lines 106-115; readable: open and read succeed
load_seen_apartments(f, readable) ==
    IF f.kind = "ok" /\ readable THEN f.apartments ELSE {}

(***************************************************************************)
(* Helpers of main's loop, lines 658-685.                                   *)
(***************************************************************************)
Sources == {"inberlinwohnen", "degewo", "howoge"}

Fingerprint(ap) == generate_apartment_id(ap.company, ap)

FpSet(apartments) == {Fingerprint(apartments[i]) : i \in 1..Len(apartments)}

\* the identity of a listing: the fingerprint basis of the data model
ListingKey(ap) ==
    [company |-> ap.company, address |-> ap.address, rooms |-> ap.rooms, size |-> ap.size]

Listings(apartments) == {ListingKey(apartments[i]) : i \in 1..Len(apartments)}

\* line 662
AlreadySeen_Never(apt_id, seen) == FALSE

AlreadySeen(apt_id, seen) == apt_id \in seen

\* line 685, reached on both branches of `if matches`
MarkSeen_OnlyMatches(seen, apt_id, matches) ==
    IF matches THEN seen \cup {apt_id} ELSE seen

MarkSeen(seen, apt_id, matches) == seen \cup {apt_id}

\* line 680, after the if/else of lines 675-678
CountMatch_OnlySent(n, sent) == IF sent THEN n + 1 ELSE n

CountMatch(n, sent) == n + 1

NoApartment == Apartment("", "", None, None, None, None, FALSE, "", "")
NoResult == Verdict(FALSE, "not evaluated")
NoSave == [called |-> FALSE, arg |-> {}]
NoDocument ==
    [source |-> "", api |-> [status |-> "non-200", items |-> <<>>],
     html |-> [status |-> "non-200", items |-> <<>>]]
NoFields == Extracted("", None, None, None)

\* no function is being checked on its own
Idle ==
    /\ document = NoDocument
    /\ extracted = <<>>
    /\ node_text = <<>>
    /\ fields = NoFields
    /\ records = <<>>
    /\ ids = <<>>

Locals ==
    /\ seen_apartments = {}
    /\ all_apartments = <<>>
    /\ idx = 1
    /\ new_apartments_found = 0
    /\ evals = <<>>
    /\ adds = <<>>
    /\ sends = <<>>
    /\ lookups = {}
    /\ loadedSeen = {}
    /\ loadOk = FALSE
    /\ saveCalled = NoSave
    /\ saved = FALSE
    /\ srcFailed = {}
    /\ failedYield = 0
    /\ sendFailed = FALSE

\* main's locals and the history of the run are dropped
ResetLocals ==
    /\ seen_apartments' = {}
    /\ all_apartments' = <<>>
    /\ idx' = 1
    /\ new_apartments_found' = 0
    /\ evals' = <<>>
    /\ adds' = <<>>
    /\ sends' = <<>>
    /\ lookups' = {}
    /\ loadedSeen' = {}
    /\ loadOk' = FALSE
    /\ saveCalled' = NoSave
    /\ saved' = FALSE
    /\ srcFailed' = {}
    /\ failedYield' = 0
    /\ sendFailed' = FALSE
    /\ UNCHANGED pureVars

MainInit ==
    /\ pc = "load"
    /\ run = 1
    /\ file = FileMissing
    /\ fileAtStart = FileMissing
    /\ prevListings = {}
    /\ prevSaved = FALSE
    /\ Locals

Init ==
    /\ MainInit
    /\ apartment = NoApartment
    /\ result = NoResult
    /\ Idle

\* an exception that leaves main() ends the process with a traceback
Abort ==
    /\ pc' = "aborted"
    /\ UNCHANGED <<run, file, seen_apartments, all_apartments, idx,
                   new_apartments_found, evals, adds, sends, lookups, loadedSeen,
                   loadOk, fileAtStart, saveCalled, prevListings, prevSaved, saved,
                   srcFailed, failedYield, sendFailed>>

(***************************************************************************)
(* main, lines 629-631.                                                    *)
(***************************************************************************)
Load ==
    /\ UNCHANGED pureVars
    /\ pc = "load"
    /\ \E readable \in BOOLEAN :
          /\ seen_apartments' = load_seen_apartments(file, readable)
          /\ loadedSeen' = load_seen_apartments(file, readable)
          /\ loadOk' = (file.kind = "ok" /\ readable)
    /\ new_apartments_found' = 0
    /\ all_apartments' = <<>>
    /\ fileAtStart' = file
    /\ pc' = "inberlinwohnen"
    /\ UNCHANGED <<run, file, idx, evals, adds, sends, lookups, saveCalled,
                   prevListings, prevSaved, saved, srcFailed, failedYield, sendFailed>>

\* all_apartments.extend(...) of lines 640, 646, 652
Extend(source, r, failed, next) ==
    /\ Len(all_apartments) + Len(r.apartments) <= MaxListings
    /\ IF r.raised THEN Abort
       ELSE /\ all_apartments' = all_apartments \o r.apartments
            /\ failedYield' = failedYield + (IF failed THEN Len(r.apartments) ELSE 0)
            /\ srcFailed' = IF failed THEN srcFailed \cup {source} ELSE srcFailed
            /\ pc' = next
            /\ UNCHANGED <<run, file, seen_apartments, idx, new_apartments_found,
                           evals, adds, sends, lookups, loadedSeen, loadOk,
                           fileAtStart, saveCalled, prevListings, prevSaved, saved,
                           sendFailed>>

\* main, line 640
CheckInberlinwohnen ==
    /\ UNCHANGED pureVars
    /\ pc = "inberlinwohnen"
    /\ \E response \in Responses(PortalItems) :
          Extend("inberlinwohnen", check_inberlinwohnen(response),
                 response.status # "200", "degewo")

\* main, line 646
CheckDegewo ==
    /\ UNCHANGED pureVars
    /\ pc = "degewo"
    /\ \E api \in Responses(DegewoItems), html \in Responses(DegewoItems) :
          Extend("degewo", check_degewo(api, html),
                 api.status # "200" /\ html.status # "200", "howoge")

\* main, line 652
CheckHowoge ==
    /\ UNCHANGED pureVars
    /\ pc = "howoge"
    /\ \E response \in Responses(HowogeItems) :
          Extend("howoge", check_howoge(response), response.status # "200", "process")

(***************************************************************************)
(* main, lines 658-685: one iteration of the loop.                         *)
(***************************************************************************)
ProcessApartment ==
    /\ UNCHANGED pureVars
    /\ pc = "process"
    /\ idx <= Len(all_apartments)
    /\ LET ap == all_apartments[idx]
           apt_id == generate_apartment_id(ap.company, ap)
           verdict == matches_criteria(ap)
       IN  /\ lookups' = lookups \cup {ap}
           /\ srcFailed' = {}
           /\ UNCHANGED <<run, file, all_apartments, loadedSeen, loadOk, fileAtStart,
                          saveCalled, prevListings, prevSaved, saved, failedYield>>
           /\ IF AlreadySeen(apt_id, seen_apartments)
              THEN /\ idx' = idx + 1
                   /\ pc' = pc
                   /\ UNCHANGED <<seen_apartments, new_apartments_found, evals, adds,
                                  sends, sendFailed>>
              ELSE IF verdict.raised
              THEN /\ pc' = "aborted"
                   /\ UNCHANGED <<idx, seen_apartments, new_apartments_found, evals,
                                  adds, sends, sendFailed>>
              ELSE IF verdict.matches
              THEN \E outcome \in TelegramOutcomes :
                      LET s == send_telegram_message(outcome)
                      IN  /\ evals' = Append(evals, apt_id)
                          /\ sends' = Append(sends, apt_id)
                          /\ sendFailed' = (sendFailed \/ ~s.ok)
                          /\ IF s.raised
                             THEN /\ pc' = "aborted"
                                  /\ UNCHANGED <<idx, seen_apartments,
                                                 new_apartments_found, adds>>
                             ELSE /\ new_apartments_found' =
                                         CountMatch(new_apartments_found, s.ok)
                                  /\ seen_apartments' =
                                         MarkSeen(seen_apartments, apt_id, TRUE)
                                  /\ adds' = Append(adds, apt_id)
                                  /\ idx' = idx + 1
                                  /\ pc' = pc
              ELSE /\ evals' = Append(evals, apt_id)
                   /\ seen_apartments' = MarkSeen(seen_apartments, apt_id, FALSE)
                   /\ adds' = Append(adds, apt_id)
                   /\ idx' = idx + 1
                   /\ pc' = pc
                   /\ UNCHANGED <<new_apartments_found, sends, sendFailed>>

(***************************************************************************)
(* save_seen_apartments, lines 117-123, called at line 688.  open(..., 'w') *)
(* creates or empties the file; json.dump then writes the document; both   *)
(* can fail, and the except clause logs the failure.                       *)
(***************************************************************************)
SaveOpen ==
    /\ UNCHANGED pureVars
    /\ pc = "process"
    /\ idx > Len(all_apartments)
    /\ saveCalled' = [called |-> TRUE, arg |-> seen_apartments]
    /\ srcFailed' = {}
    /\ \E opened \in BOOLEAN :
          IF opened THEN file' = FileTruncated /\ pc' = "dump"
          ELSE file' = file /\ pc' = "report"
    /\ saved' = FALSE
    /\ UNCHANGED <<run, seen_apartments, all_apartments, idx, new_apartments_found,
                   evals, adds, sends, lookups, loadedSeen, loadOk, fileAtStart,
                   prevListings, prevSaved, failedYield, sendFailed>>

SaveDump ==
    /\ UNCHANGED pureVars
    /\ pc = "dump"
    /\ \E written \in BOOLEAN :
          /\ file' = IF written THEN FileOk(seen_apartments) ELSE FileTruncated
          /\ saved' = written
    /\ pc' = "report"
    /\ UNCHANGED <<run, seen_apartments, all_apartments, idx, new_apartments_found,
                   evals, adds, sends, lookups, loadedSeen, loadOk, fileAtStart,
                   saveCalled, prevListings, prevSaved, srcFailed, failedYield,
                   sendFailed>>

(***************************************************************************)
(* main, lines 690-693: the summary; main returns and its locals are gone. *)
(***************************************************************************)
Report ==
    /\ pc = "report"
    /\ pc' = "done"
    /\ prevListings' = Listings(all_apartments)
    /\ prevSaved' = saved
    /\ fileAtStart' = file
    /\ ResetLocals
    /\ UNCHANGED <<run, file>>

\* the next invocation of the script
StartRun ==
    /\ pc \in {"done", "aborted", "crashed"}
    /\ run < MaxRuns
    /\ run' = run + 1
    /\ pc' = "load"
    /\ prevListings' = IF pc = "done" THEN prevListings ELSE {}
    /\ prevSaved' = IF pc = "done" THEN prevSaved ELSE FALSE
    /\ fileAtStart' = file
    /\ ResetLocals
    /\ UNCHANGED file

\* the process is killed (power loss, SIGKILL) at any point of a run
Crash ==
    /\ UNCHANGED pureVars
    /\ pc \in {"load", "inberlinwohnen", "degewo", "howoge", "process", "dump", "report"}
    /\ pc' = "crashed"
    /\ UNCHANGED <<run, file, seen_apartments, all_apartments, idx,
                   new_apartments_found, evals, adds, sends, lookups, loadedSeen,
                   loadOk, fileAtStart, saveCalled, prevListings, prevSaved, saved,
                   srcFailed, failedYield, sendFailed>>

Next ==
    \/ Load
    \/ CheckInberlinwohnen
    \/ CheckDegewo
    \/ CheckHowoge
    \/ ProcessApartment
    \/ SaveOpen
    \/ SaveDump
    \/ Report
    \/ StartRun

Spec == Init /\ [][Next]_vars

NextCrash == Next \/ Crash

\* the runs with the process killed at any point
CrashSpec == Init /\ [][NextCrash]_vars

(***************************************************************************)
(* One run of main() from any state file: none, one that holds no complete *)
(* document, and complete documents with and without fingerprints the run  *)
(* will meet.  The process keeps executing: a started run takes its next   *)
(* step.                                                                   *)
(***************************************************************************)
RunFiles ==
    {FileMissing, FileTruncated}
      \cup {FileOk(S) : S \in SUBSET {Fingerprint(HowogeBuild(Qualifying("HOWOGE", "Astr. 1"))),
                                     Fingerprint(DegewoBuild(Absent("degewo", "Astr. 1")))}}

RunInit ==
    /\ pc = "load"
    /\ run = 1
    /\ file \in RunFiles
    /\ fileAtStart = file
    /\ prevListings = {}
    /\ prevSaved = FALSE
    /\ Locals
    /\ apartment = NoApartment
    /\ result = NoResult
    /\ Idle

RunNext ==
    \/ Load
    \/ CheckInberlinwohnen
    \/ CheckDegewo
    \/ CheckHowoge
    \/ ProcessApartment
    \/ SaveOpen
    \/ SaveDump
    \/ Report

LiveSpec == RunInit /\ [][RunNext]_vars /\ WF_vars(RunNext)

(***************************************************************************)
(* matches_criteria on its own: the argument is drawn from the values      *)
(* around the thresholds, absent in both ways, and non-numeric.            *)
(***************************************************************************)
EvalRooms ==
    {Missing, None, Text, IntNum(0), Float(10), Float(15), Float(20), IntNum(20),
     Float(30)}
EvalSizes == {Missing, None, Text, Float(495), Float(500), IntNum(500), Float(501)}
EvalRents == {Missing, None, Text, Float(0), Float(70000), IntNum(70000), Float(70001)}

EvalInputs ==
    {Apartment("degewo", "Astr. 1", r, s, w, None, wbs, "", "ab sofort") :
        r \in EvalRooms, s \in EvalSizes, w \in EvalRents, wbs \in BOOLEAN}

EvalInit ==
    /\ MainInit
    /\ apartment \in EvalInputs
    /\ result = NoResult
    /\ Idle

Evaluate ==
    /\ result = NoResult
    /\ result' = matches_criteria(apartment)
    /\ UNCHANGED <<apartment, extractVars, parseVars, idVars>>
    /\ UNCHANGED mainVars

EvalSpec == EvalInit /\ [][Evaluate]_vars

(***************************************************************************)
(* The extractors on their own: one call of one extractor on the responses *)
(* it is served.  check_degewo is served two, the API's and the HTML       *)
(* page's.                                                                 *)
(***************************************************************************)
Documents ==
    {[source |-> "inberlinwohnen", api |-> NoDocument.api, html |-> r] :
        r \in Responses(PortalItems)}
      \cup {[source |-> "howoge", api |-> NoDocument.api, html |-> r] :
                r \in Responses(HowogeItems)}
      \cup {[source |-> "degewo", api |-> a, html |-> h] :
                a \in Responses(DegewoItems), h \in Responses(DegewoItems)}

\* the calls of lines 640, 646, 652
Extractor(doc) ==
    CASE doc.source = "inberlinwohnen" -> check_inberlinwohnen(doc.html)
      [] doc.source = "degewo" -> check_degewo(doc.api, doc.html)
      [] OTHER -> check_howoge(doc.html)

\* main is at position p of its first run and has done nothing yet
MainAt(p) ==
    /\ pc = p
    /\ run = 1
    /\ file = FileMissing
    /\ fileAtStart = FileMissing
    /\ prevListings = {}
    /\ prevSaved = FALSE
    /\ Locals

ExtractInit ==
    /\ MainAt("extract")
    /\ apartment = NoApartment
    /\ result = NoResult
    /\ document \in Documents
    /\ extracted = <<>>
    /\ node_text = <<>>
    /\ fields = NoFields
    /\ records = <<>>
    /\ ids = <<>>

Extract ==
    /\ pc = "extract"
    /\ extracted' = Extractor(document).apartments
    /\ pc' = IF Extractor(document).raised THEN "aborted" ELSE "extracted"
    /\ UNCHANGED <<mainRest, document, evalVars, parseVars, idVars>>

ExtractSpec == ExtractInit /\ [][Extract]_vars

(***************************************************************************)
(* generate_apartment_id on its own, as main calls it at line 659: two     *)
(* records, the first with the other fields at fixed values, the second    *)
(* with every field drawn.                                                 *)
(***************************************************************************)
IdCompanies == {"degewo", "HOWOGE"}
IdAddresses == {"Astr. 1", "Bweg 2"}
IdRooms == {None, Float(20), IntNum(20)}
IdSizes == {None, Float(500)}
IdRents == {None, Float(60000)}
IdUrls == {"", "https://www.howoge.de/x"}
IdDates == {"ab sofort", "01.12.2026"}

IdFirst ==
    {Apartment(c, a, r, s, None, None, FALSE, "", "ab sofort") :
        c \in IdCompanies, a \in IdAddresses, r \in IdRooms, s \in IdSizes}

IdSecond ==
    {Apartment(c, a, r, s, w, k, wbs, u, d) :
        c \in IdCompanies, a \in IdAddresses, r \in IdRooms, s \in IdSizes,
        w \in IdRents, k \in IdRents, wbs \in BOOLEAN, u \in IdUrls, d \in IdDates}

IdInit ==
    /\ MainAt("fingerprint")
    /\ apartment = NoApartment
    /\ result = NoResult
    /\ document = NoDocument
    /\ extracted = <<>>
    /\ node_text = <<>>
    /\ fields = NoFields
    /\ records \in IdFirst \X IdSecond
    /\ ids = <<>>

\* line 659, for each of the two records
GenerateIds ==
    /\ pc = "fingerprint"
    /\ ids' = <<generate_apartment_id(records[1].company, records[1]),
                generate_apartment_id(records[2].company, records[2])>>
    /\ pc' = "fingerprinted"
    /\ UNCHANGED <<mainRest, records, evalVars, extractVars, parseVars>>

IdSpec == IdInit /\ [][GenerateIds]_vars

(***************************************************************************)
(* The field extraction of the markup extractors on its own.  The text of  *)
(* a listing node is a number token, its unit, and what stands before and  *)
(* after them.                                                             *)
(***************************************************************************)
NumberTokens ==
    {<<"6", "0", "0">>,
     <<"6", "0", "0", ",", "0", "0">>,
     <<"7", "0", "0", ",", "0", "1">>,
     <<"6", "9", "9", ".", "9", "9">>,
     <<"5", "4", ",", "5">>,
     <<"1", "2", "3", "4", ",", "5", "6">>,
     <<"1", ".", "2", "3", "4", ",", "5", "6">>}

Units == {<<" ", EuroSign>>, <<" ", "m", Sup2>>}

TextsBefore ==
    {<<>>,
     <<"2", " ", "Z", "i", ".", " ">>,
     <<"S", "t", "r", ".", " ", "3", ",", " ", "2", " ", "Z", "i", ".", " ">>}

TextsAfter == {<<>>, <<".">>}

Sites == {"inberlinwohnen", "howoge", "degewo details"}

NodeTexts ==
    [before : TextsBefore, token : NumberTokens, unit : Units, after : TextsAfter]

\* listing.get_text(), lines 219 and 513; price_text, line 367
get_text(node) == node.before \o node.token \o node.unit \o node.after

ParseInit ==
    /\ MainAt("parse")
    /\ apartment = NoApartment
    /\ result = NoResult
    /\ document = NoDocument
    /\ extracted = <<>>
    /\ node_text \in NodeTexts
    /\ fields \in {Extracted(site, None, None, None) : site \in Sites}
    /\ records = <<>>
    /\ ids = <<>>

\* a ValueError of float() is caught by the except of the loop (lines 265,
\* 553) or of the function (line 375) and the item is skipped
Parse ==
    /\ pc = "parse"
    /\ fields' = ExtractFields(fields.site, get_text(node_text))
    /\ pc' = IF ExtractFields(fields.site, get_text(node_text)).raised
             THEN "skipped" ELSE "parsed"
    /\ UNCHANGED <<mainRest, node_text, evalVars, extractVars, idVars>>

ParseSpec == ParseInit /\ [][Parse]_vars

(***************************************************************************)
(* Vocabulary of the properties.                                           *)
(***************************************************************************)
Count(log, x) == Cardinality({i \in 1..Len(log) : log[i] = x})

\* the loop of lines 658-685 is over and main's locals are still there
LoopOver ==
    \/ pc = "process" /\ idx > Len(all_apartments)
    \/ pc \in {"dump", "report"}

IsAbsent(v) == v.tag \in {"None", "missing"}

AllAbsent(ap) == IsAbsent(ap.rooms) /\ IsAbsent(ap.size) /\ IsAbsent(ap.warm_rent)

\* this run's extractor output holds the listings of the previous run's
SameListingsAsBefore == run > 1 /\ Listings(all_apartments) = prevListings

NothingNew ==
    /\ FpSet(all_apartments) \subseteq loadedSeen
    /\ evals = <<>>
    /\ sends = <<>>
    /\ new_apartments_found = 0

\* C1, as claimed: whenever a run has extracted the same listings as the run
\* before it, every fingerprint is in the loaded seen-set, nothing is
\* evaluated, nothing is dispatched and the run counts 0 new matches.
C1_AsClaimed == (LoopOver /\ SameListingsAsBefore) => NothingNew

\* C1, amended: the same, for a run whose predecessor's save wrote the whole
\* document and whose own load read it.
C1_SecondRunFindsNothing ==
    (LoopOver /\ SameListingsAsBefore /\ prevSaved /\ loadOk) => NothingNew

C1_Witness ==
    /\ pc = "report"
    /\ SameListingsAsBefore
    /\ prevSaved
    /\ loadOk
    /\ Len(all_apartments) = 2
    /\ evals = <<>>

\* C2: in one run no fingerprint is handed to matches_criteria or to
\* seen_apartments.add more than once; when the loop is over every fingerprint
\* of the extractor output is in the seen-set, evaluated and added exactly once
\* if the loaded seen-set did not hold it (match or not) and never otherwise.
C2_EvaluatedAndMarkedOnce ==
    \A fp \in FpSet(all_apartments) :
        /\ Count(evals, fp) <= 1
        /\ Count(adds, fp) <= 1
        /\ LoopOver =>
              /\ fp \in seen_apartments
              /\ Count(evals, fp) = (IF fp \in loadedSeen THEN 0 ELSE 1)
              /\ Count(adds, fp) = (IF fp \in loadedSeen THEN 0 ELSE 1)

\* the same fingerprint delivered twice, by two sources, and evaluated once
C2_Witness ==
    /\ pc = "report"
    /\ Len(all_apartments) = 2
    /\ Fingerprint(all_apartments[1]) = Fingerprint(all_apartments[2])
    /\ all_apartments[1] # all_apartments[2]
    /\ Len(evals) = 1
    /\ Len(adds) = 1

\* C3, as claimed: at the end of a run the state file stores every
\* fingerprint it stored when the run started.
C3_NeverShrinks == pc = "report" => Stored(fileAtStart) \subseteq Stored(file)

\* C4, as claimed: after a crash the state file stores what it stored when the
\* run started, or it is the complete document of the set handed to
\* save_seen_apartments.
C4_AtomicSave ==
    pc = "crashed" =>
        \/ Stored(file) = Stored(fileAtStart)
        \/ saveCalled.called /\ file = FileOk(saveCalled.arg)

\* C5, as claimed: with requires_wbs true the verdict is a match exactly when
\* rooms is a number in [1, 2] and size is a number <= 50.
C5_WbsBranch ==
    (result # NoResult /\ apartment.requires_wbs) =>
        (result.matches <=>
            /\ IsNum(apartment.rooms)
            /\ apartment.rooms.val >= 10
            /\ apartment.rooms.val <= 20
            /\ IsNum(apartment.size)
            /\ apartment.size.val <= 500)

\* C6, as claimed: with requires_wbs false the verdict is a match exactly when
\* warm_rent is a number <= 700, whatever rooms and size are.
C6_MarketBranch ==
    (result # NoResult /\ ~apartment.requires_wbs) =>
        (result.matches <=>
            /\ IsNum(apartment.warm_rent)
            /\ apartment.warm_rent.val <= 70000)

\* C7, as claimed: no record whose rooms, size and warm_rent are all absent
\* has its fingerprint looked up in the seen-set.
C7_DropRule == \A ap \in lookups : ~AllAbsent(ap)

(***************************************************************************)
(* C8: the second of two runs; one listing of the first run has vanished   *)
(* and one listing that was never stored, with another address, has        *)
(* appeared and qualifies.                                                 *)
(***************************************************************************)
Vanished == prevListings \ Listings(all_apartments)
Appeared == Listings(all_apartments) \ prevListings

KeyFp(k) == generate_apartment_id(k.company, k)

Qualifies(k) ==
    \A i \in 1..Len(all_apartments) :
        ListingKey(all_apartments[i]) = k => matches_criteria(all_apartments[i]).matches

C8_Scenario ==
    /\ LoopOver
    /\ run > 1
    /\ Cardinality(Vanished) = 1
    /\ Cardinality(Appeared) = 1
    /\ \A n \in Appeared :
          /\ KeyFp(n) \notin Stored(fileAtStart)
          /\ Qualifies(n)
          /\ \A v \in Vanished : v.address # n.address

C8_Outcome ==
    /\ \A n \in Appeared : Count(sends, KeyFp(n)) = 1
    /\ \A i \in 1..Len(sends) : \E n \in Appeared : sends[i] = KeyFp(n)
    /\ \A v \in Vanished : Count(sends, KeyFp(v)) = 0
    /\ Cardinality(seen_apartments) = Cardinality(Stored(fileAtStart)) + 1
    /\ (pc = "report" /\ saved) =>
          Cardinality(Stored(file)) = Cardinality(Stored(fileAtStart)) + 1

\* C8, as claimed: in the scenario the new listing gets exactly one dispatch,
\* no other listing gets any and the seen-set grows by exactly one.
C8_AsClaimed == C8_Scenario => C8_Outcome

\* C8, amended: the same, when the first run's save wrote the whole document
\* and the second run's load read it.
C8_OneNotification == (C8_Scenario /\ prevSaved /\ loadOk) => C8_Outcome

C8_Witness ==
    /\ pc = "report"
    /\ C8_Scenario
    /\ prevSaved
    /\ loadOk
    /\ saved
    /\ Len(all_apartments) = 2
    /\ Len(sends) = 1

\* C9: no failure of an evaluation or of a dispatch ends the run: when the
\* loop is over every record was looked up, every fingerprint was either
\* loaded as seen or evaluated, and once save_seen_apartments has been called
\* it was called with every fingerprint of the run.
C9_RecordIsolation ==
    /\ pc # "aborted"
    /\ LoopOver =>
          /\ lookups = {all_apartments[i] : i \in 1..Len(all_apartments)}
          /\ \A fp \in FpSet(all_apartments) : fp \in loadedSeen \/ Count(evals, fp) = 1
    /\ pc \in {"dump", "report"} =>
          /\ saveCalled.called
          /\ FpSet(all_apartments) \subseteq saveCalled.arg

\* the dispatch for the first record failed, the second record was still
\* evaluated, its data made the evaluation fail, and save was still called
C9_Witness ==
    /\ pc = "report"
    /\ Len(all_apartments) = 2
    /\ Len(evals) = 2
    /\ Len(sends) = 1
    /\ sendFailed
    /\ matches_criteria(all_apartments[2]).reason = "error"
    /\ saveCalled.called

\* C10: every run that starts reaches its summary, no exception leaves main,
\* a source that failed returned no record and the next extractor was called.
C10_RunCompletes ==
    /\ (pc = "load") ~> (pc = "done")
    /\ [](pc # "aborted")
    /\ [](failedYield = 0)
    /\ []("inberlinwohnen" \in srcFailed => pc \in {"degewo", "howoge", "process"})
    /\ []("degewo" \in srcFailed => pc \in {"howoge", "process"})

\* every source failed, the state file was unreadable, and the run goes on
C10_Witness ==
    /\ pc = "process"
    /\ srcFailed = Sources
    /\ fileAtStart.kind = "truncated"
    /\ ~loadOk

\* the response with the items that fail to parse taken out
WithoutFailing(r) ==
    [status |-> r.status, items |-> SelectSeq(r.items, LAMBDA it : it.kind # "bad")]

\* C11, as claimed: an item that fails to parse only skips that item: the
\* extractor returns what it returns for the same responses without the
\* failing items, so every sibling that parses is returned as before.
C11_SiblingsSurvive ==
    pc = "extracted" =>
        extracted = Extractor([source |-> document.source,
                               api |-> WithoutFailing(document.api),
                               html |-> WithoutFailing(document.html)]).apartments


\* C12: two records with the same company, address, rooms and size get the
\* same fingerprint whatever their warm_rent, cold_rent, requires_wbs, url and
\* available_from are, so once the first is marked seen the lookup of line
\* 662 finds the second.
C12_FingerprintDeterminism ==
    (pc = "fingerprinted" /\ ListingKey(records[1]) = ListingKey(records[2])) =>
        /\ ids[1] = ids[2]
        /\ AlreadySeen(ids[2], MarkSeen({}, ids[1], TRUE))

\* the two records differ in every field outside the fingerprint basis
C12_Witness ==
    /\ pc = "fingerprinted"
    /\ ListingKey(records[1]) = ListingKey(records[2])
    /\ records[1].rooms = Float(20)
    /\ records[1].warm_rent # records[2].warm_rent
    /\ records[1].cold_rent # records[2].cold_rent
    /\ records[1].requires_wbs # records[2].requires_wbs
    /\ records[1].url # records[2].url
    /\ records[1].available_from # records[2].available_from
    /\ ids[1] = ids[2]


\* C13, as claimed: the reason of every non-match names the constraint that
\* failed, also when rooms or size is absent or not a number.
C13_ReasonNamesConstraint ==
    (result # NoResult /\ ~result.matches) =>
        result.reason \in {"size over limit", "room count out of range",
                           "no price available", "price over ceiling"}


\* the token and its unit with nothing around them
TokenAlone ==
    [before |-> <<>>, token |-> node_text.token, unit |-> node_text.unit, after |-> <<>>]

\* C14, as claimed: "54,5 m2" gives the size 54.5, "1.234,56 EUR-sign" gives
\* the price 1234.56, and the price extracted from a text is the price
\* extracted from its price token alone, whatever stands around the token.
C14_LocaleCoercion ==
    pc = "parsed" =>
        /\ (/\ fields.site # "degewo details"
            /\ node_text.token = <<"5", "4", ",", "5">>
            /\ node_text.unit = <<" ", "m", Sup2>>) => fields.size = Float(5450)
        /\ (/\ get_text(node_text) = <<"1", ".", "2", "3", "4", ",", "5", "6", " ", EuroSign>>)
              => fields.warm_rent = Float(123456)
        /\ (node_text.unit = <<" ", EuroSign>>)
              => fields.warm_rent = ExtractFields(fields.site, get_text(TokenAlone)).warm_rent


\* what main does around a dispatch, delivered or not: the record is counted
\* as a new match and its fingerprint is marked seen exactly once, no
\* fingerprint gets two dispatches in one run, and a completed save stores
\* the fingerprint
DispatchIsFinal ==
    /\ new_apartments_found = Len(sends)
    /\ \A i \in 1..Len(sends) :
          /\ sends[i] \in seen_apartments
          /\ Count(adds, sends[i]) = 1
          /\ Count(sends, sends[i]) = 1
          /\ (pc = "report" /\ saved) => sends[i] \in Stored(file)

\* C15, as claimed: a failed dispatch is counted and marked like a delivered
\* one, and no run attempts a dispatch for a fingerprint the state file held
\* when the run started.
C15_AsClaimed ==
    /\ DispatchIsFinal
    /\ \A i \in 1..Len(sends) : sends[i] \notin Stored(fileAtStart)

\* C15, amended: the same, for the runs whose load read the state file.
C15_FailedDispatchNotRetried ==
    /\ DispatchIsFinal
    /\ loadOk => \A i \in 1..Len(sends) : sends[i] \notin Stored(fileAtStart)

\* the only dispatch of the run failed, the record was counted and marked,
\* and the save stored its fingerprint
C15_Witness ==
    /\ pc = "report"
    /\ saved
    /\ sendFailed
    /\ Len(sends) = 1
    /\ new_apartments_found = 1
    /\ sends[1] \in Stored(file)
    /\ sends[1] \notin Stored(fileAtStart)

=============================================================================
